---- MODULE Spec2Model ----
(***************************************************************************)
(* State-machine model of the ChatPlug Discord bridge (src/discord.go).    *)
(*                                                                         *)
(* Strings are sequences of one-character strings, so that                 *)
(* strings.HasPrefix and strings.Contains are computed, not assumed.       *)
(* Byte streams are represented by their length: the claims about the      *)
(* attachment pipeline speak of how many bytes reach the sink.             *)
(***************************************************************************)
EXTENDS Integers, Sequences, FiniteSets, TLC

VARIABLES
    guilds,          \* platform: ds.discordClient.State.Guilds with their channels
    webhooks,        \* platform: channel ID -> webhooks of the channel, in listing order
    nextHookID,      \* platform: ID given to the next webhook created
    MessagesChan,    \* ds.client.MessagesChan: hub messages not yet consumed
    hubCount,        \* number of hub messages delivered so far
    outPc,           \* position of the handleMessages goroutine
    cur,             \* handleMessages locals: msg, webhook, body, index of next attachment
    resolutions,     \* history: the last two proxy resolutions (lines 38-53), oldest first
    posted,          \* history: the IDs of the messages client.Do was called for, in order
    lastPost,        \* req and response of the current iteration (lines 98-108), once made
    panicAt,         \* "none", or the expression whose nil dereference ended the process
    pendingEvents,   \* platform: MessageCreate events of bridge posts, not yet dispatched
    nextMsgID,       \* platform: ID given to the next platform message
    bridgePosted,    \* history: platform message IDs created by the bridge's own POSTs
    lastHandled,     \* history: the last discordMessageCreate invocation
    hubSent,         \* history: one record per ds.client.SendMessage call
    SearchRequestsChan, \* ds.client.SearchRequestsChan: search requests not yet consumed
    searchCount,     \* number of search requests delivered so far
    searchResponses, \* history: one record per ds.client.SetSearchResponse call
    dl,              \* a single DownloadFile call: its input and, once made, its result
    boot             \* Startup: its position, the configuration file and what it has done

vars == <<guilds, webhooks, nextHookID, MessagesChan, hubCount, outPc, cur,
          resolutions, posted, lastPost, panicAt, pendingEvents, nextMsgID,
          bridgePosted, lastHandled, hubSent, SearchRequestsChan, searchCount,
          searchResponses, dl, boot>>

-----------------------------------------------------------------------------
(* Strings *)

\* strings.HasPrefix(s, prefix)
HasPrefix(s, prefix) ==
    /\ Len(s) >= Len(prefix)
    /\ SubSeq(s, 1, Len(prefix)) = prefix

\* strings.Contains(s, substr)
Contains(s, substr) ==
    \E i \in 0..(Len(s) - Len(substr)) : SubSeq(s, i + 1, i + Len(substr)) = substr

\* The literal "ChatPlug " of lines 44, 52 and 179
BridgeTag == <<"C", "h", "a", "t", "P", "l", "u", "g", " ">>

-----------------------------------------------------------------------------
(* DownloadFile *)

\* The literal (8 * 1024 * 1024) of line 267
ContentLengthLimit == 8 * 1024 * 1024

TooBig_inclusive(contentLength) == contentLength >= ContentLengthLimit

\* line 267: head.ContentLength > (8 * 1024 * 1024)
TooBig(contentLength) == contentLength > ContentLengthLimit

\* Outcomes of http.Head(url): a response, or a transport error
HeadOutcomes == {"ok", "err"}

\* Outcomes of http.Get(url) followed by io.Copy: the whole body is copied, the
\* request fails, or the body breaks off after part of it was copied
GetOutcomes == {"ok", "err", "cut"}

\* DownloadFile(url, dst), lines 260-280.  src describes what url serves:
\* the Content-Length its HEAD response declares (-1 when unknown) and the
\* length of the body a GET returns.  The result tells the returned error,
\* whether the GET was issued and how many bytes were written to dst.
DownloadFile(src, head, get) ==
    IF head = "err"
    THEN [err |-> "head", getIssued |-> FALSE, written |-> 0]
    ELSE IF TooBig(src.declared)
    THEN [err |-> "toobig", getIssued |-> FALSE, written |-> 0]
    ELSE IF get = "err"
    THEN [err |-> "get", getIssued |-> TRUE, written |-> 0]
    ELSE IF get = "cut"
    THEN [err |-> "copy", getIssued |-> TRUE, written |-> src.body \div 2]
    ELSE [err |-> "nil", getIssued |-> TRUE, written |-> src.body]

-----------------------------------------------------------------------------
(* The platform: guilds, channels, webhooks *)

\* discordgo.ChannelTypeGuildText and two of the other channel kinds
ChannelTypes == {"GuildText", "GuildVoice", "GuildCategory"}

\* Number of guilds and of channels per guild in the worlds the search is
\* checked on (more than 30 text channels exist in the largest of them)
NumGuilds == 2
ChannelsPerGuild == 20

GuildNameOf(g) ==
    IF g % 2 = 1 THEN <<"a", "b">> ELSE <<"b", " ", "c">>

ChannelNameOf(j) ==
    IF j % 3 = 1 THEN <<"c", "a">> ELSE IF j % 3 = 2 THEN <<"x">> ELSE <<"A", "b">>

\* Kinds of the channels of a guild: all text, every fourth one a voice
\* channel, or no text channel at all
KindPatterns == {"text", "mixed", "none"}

ChannelTypeOf(pattern, j) ==
    IF pattern = "text" THEN "GuildText"
    ELSE IF pattern = "mixed" THEN (IF j % 4 = 0 THEN "GuildVoice" ELSE "GuildText")
    ELSE "GuildCategory"

Guild(g, n, pattern) ==
    [ID |-> g, Name |-> GuildNameOf(g), Icon |-> "hash",
     Channels |-> [j \in 1..n |-> [ID |-> g * 100 + j,
                                    Name |-> ChannelNameOf(j),
                                    Type |-> ChannelTypeOf(pattern, j)]]]

AllChannels(gs) ==
    UNION {{gs[g].Channels[j] : j \in DOMAIN gs[g].Channels} : g \in DOMAIN gs}

ChannelIDs(gs) == {c.ID : c \in AllChannels(gs)}

\* The world the relay is checked on: one guild, two text channels
RelayGuilds == <<Guild(1, 2, "text")>>

\* The worlds the search is checked on
SearchWorlds ==
    {[g \in 1..NumGuilds |-> Guild(g, ChannelsPerGuild, pat[g])] :
        pat \in [1..NumGuilds -> KindPatterns]}

\* A nil *discordgo.Webhook
NilWebhook == [ID |-> 0, Token |-> 0, Name |-> <<>>, ChannelID |-> 0]

\* A webhook somebody else made, named "ChatPlugs": the tag without its space
ForeignWebhook(c) ==
    [ID |-> 1, Token |-> 1001, ChannelID |-> c,
     Name |-> <<"C", "h", "a", "t", "P", "l", "u", "g", "s">>]

\* A webhook an earlier run of the bridge made for channel c
EarlierWebhook(c, name) ==
    [ID |-> 2, Token |-> 1002, ChannelID |-> c, Name |-> BridgeTag \o name]

AllWebhooks == UNION {{webhooks[c][i] : i \in DOMAIN webhooks[c]} : c \in DOMAIN webhooks}

Recognized(c) == {i \in DOMAIN webhooks[c] : HasPrefix(webhooks[c][i].Name, BridgeTag)}

-----------------------------------------------------------------------------
(* Channel search, lines 153-168 *)

Queries == {<<>>, <<"b">>, <<"c", "a">>, <<"a", "b">>, <<"z">>}

\* Number of search requests the hub sends
MaxSearches == 1

\* The literal 30 of line 158
MaxResults == 30

SearchCondition_anyKind(threadResults, channel, guild, query) ==
    /\ Len(threadResults) < MaxResults
    /\ (Contains(channel.Name, query) \/ Contains(guild.Name, query))

\* A variant of SearchCondition that does not look at the guild's name
SearchCondition_channelOnly(threadResults, channel, guild, query) ==
    /\ Len(threadResults) < MaxResults
    /\ Contains(channel.Name, query)
    /\ channel.Type = "GuildText"

\* The condition of line 158
SearchCondition(threadResults, channel, guild, query) ==
    /\ Len(threadResults) < MaxResults
    /\ (Contains(channel.Name, query) \/ Contains(guild.Name, query))
    /\ channel.Type = "GuildText"

\* lines 159-163
SearchThreadInput(guild, channel) ==
    [Name |-> guild.Name \o <<" ", "-", " ">> \o channel.Name,
     IconURL |-> <<"icons", guild.ID, guild.Icon>>,
     OriginID |-> channel.ID]

\* The inner loop, lines 157-165
RECURSIVE ScanChannels(_, _, _, _)
ScanChannels(guild, channels, query, threadResults) ==
    IF channels = <<>> THEN threadResults
    ELSE LET appended ==
                 IF SearchCondition(threadResults, Head(channels), guild, query)
                 THEN Append(threadResults, SearchThreadInput(guild, Head(channels)))
                 ELSE threadResults
         IN  ScanChannels(guild, Tail(channels), query, appended)

\* The outer loop, lines 155-166.  listed is the set of guild IDs for which
\* GuildChannels succeeds; for the others it returns no channels (the error
\* is discarded on line 156).  The test on Len(scanned) always succeeds: it
\* makes TLC evaluate one guild's results before it visits the next guild.
RECURSIVE ScanGuilds(_, _, _, _)
ScanGuilds(gs, listed, query, threadResults) ==
    IF gs = <<>> THEN threadResults
    ELSE LET channels == IF Head(gs).ID \in listed THEN Head(gs).Channels ELSE <<>>
             scanned == ScanChannels(Head(gs), channels, query, threadResults)
         IN  IF Len(scanned) <= MaxResults
             THEN ScanGuilds(Tail(gs), listed, query, scanned)
             ELSE scanned

\* The hub delivers a search request
SearchRequest ==
    /\ panicAt = "none"
    /\ searchCount < MaxSearches
    /\ \E q \in Queries :
          SearchRequestsChan' = Append(SearchRequestsChan, [Query |-> q])
    /\ searchCount' = searchCount + 1
    /\ UNCHANGED <<boot, guilds, webhooks, nextHookID, MessagesChan, hubCount, outPc, cur,
                   resolutions, posted, lastPost, panicAt, pendingEvents, nextMsgID,
                   bridgePosted, lastHandled, hubSent, searchResponses, dl>>

\* A variant of SearchLoopRuns for handleMessages called without `go`: Startup
\* reaches its search loop only once handleMessages has returned
SearchLoopRuns_inline ==
    /\ boot.searchSubscribed
    /\ boot.handleMessages
    /\ outPc = "returned"

\* lines 147-153: Startup is in its search loop once it has subscribed and
\* has started handleMessages in a goroutine of its own, wherever that
\* goroutine is
SearchLoopRuns ==
    /\ boot.searchSubscribed
    /\ boot.handleMessages

\* One iteration of the loop of lines 153-168
SearchRespond ==
    /\ panicAt = "none"
    /\ SearchLoopRuns
    /\ SearchRequestsChan # <<>>
    /\ \E listed \in SUBSET {guilds[g].ID : g \in DOMAIN guilds} :
          searchResponses' = Append(searchResponses,
              [Query |-> Head(SearchRequestsChan).Query,
               Results |-> ScanGuilds(guilds, listed, Head(SearchRequestsChan).Query, <<>>),
               listed |-> listed])
    /\ SearchRequestsChan' = Tail(SearchRequestsChan)
    /\ UNCHANGED <<boot, guilds, webhooks, nextHookID, MessagesChan, hubCount, outPc, cur,
                   resolutions, posted, lastPost, panicAt, pendingEvents, nextMsgID,
                   bridgePosted, lastHandled, hubSent, searchCount, dl>>

-----------------------------------------------------------------------------
(* Outbound relay: handleMessages, lines 35-122 *)

\* Number of hub messages delivered on MessagesChan
MaxHubMessages == 2

\* Attachment URLs, as path segments
SmallURL == <<"cdn", "small.png">>
BigURL == <<"cdn", "files", "big.bin">>

\* What a URL serves: the declared Content-Length and the length of the body
Remote(url) ==
    IF url = BigURL
    THEN [declared |-> ContentLengthLimit + 1, body |-> ContentLengthLimit + 1]
    ELSE [declared |-> 3, body |-> 3]

\* path.Base(url)
Base(url) == IF url = <<>> THEN "." ELSE url[Len(url)]

AttachmentLists ==
    {<<>>,
     <<[SourceURL |-> BigURL], [SourceURL |-> SmallURL]>>}

\* The hub messages delivered: msg.TargetThreadID, msg.Message.*
HubMessages(id) ==
    {[ID |-> id, TargetThreadID |-> c,
      Author |-> [Username |-> "alice", AvatarURL |-> "alice.png"],
      Body |-> "hi", Attachments |-> atts] :
        c \in ChannelIDs(guilds), atts \in AttachmentLists}

NoMessage ==
    [ID |-> 0, TargetThreadID |-> 0,
     Author |-> [Username |-> "", AvatarURL |-> ""],
     Body |-> "", Attachments |-> <<>>]

\* The locals of handleMessages between two messages
NoCur == [msg |-> NoMessage, webhook |-> NilWebhook, body |-> <<>>, i |-> 1,
          results |-> <<>>]

\* No client.Do call yet
NoPost == [msg |-> NoMessage, url |-> <<0, 0>>, body |-> <<>>, results |-> <<>>,
           err |-> FALSE, StatusCode |-> 0]

\* The hub client delivers a message on MessagesChan, one at a time: the next
\* one once the loop has taken the one before
HubDeliver ==
    /\ panicAt = "none"
    /\ hubCount < MaxHubMessages
    /\ MessagesChan = <<>>
    /\ \E msg \in HubMessages(hubCount + 1) : MessagesChan' = Append(MessagesChan, msg)
    /\ hubCount' = hubCount + 1
    /\ UNCHANGED <<boot, guilds, webhooks, nextHookID, outPc, cur, resolutions, posted,
                   lastPost, panicAt, pendingEvents, nextMsgID, bridgePosted, lastHandled,
                   hubSent, SearchRequestsChan, searchCount, searchResponses, dl>>

\* The last two entries of a history
LastTwo(h) == IF Len(h) > 2 THEN Tail(h) ELSE h

\* The loop of lines 43-48: every hook whose name has the tag overwrites the
\* one found before it
RECURSIVE ScanWebhooks(_, _)
ScanWebhooks(hooks, found) ==
    IF hooks = <<>> THEN found
    ELSE ScanWebhooks(Tail(hooks),
            IF HasPrefix(Head(hooks).Name, BridgeTag)
            THEN [hasWebhook |-> TRUE, webhook |-> Head(hooks)]
            ELSE found)

SelectWebhook_none(hooks) == [hasWebhook |-> FALSE, webhook |-> NilWebhook]

\* A variant of SelectWebhook that stops at the first hook with the tag
SelectWebhook_first(hooks) ==
    LET tagged == {i \in DOMAIN hooks : HasPrefix(hooks[i].Name, BridgeTag)}
    IN  IF tagged = {} THEN [hasWebhook |-> FALSE, webhook |-> NilWebhook]
        ELSE [hasWebhook |-> TRUE,
              webhook |-> hooks[CHOOSE i \in tagged : \A j \in tagged : i <= j]]

\* A variant of SelectWebhook that takes a hook whatever its name
SelectWebhook_anyName(hooks) ==
    IF hooks = <<>> THEN [hasWebhook |-> FALSE, webhook |-> NilWebhook]
    ELSE [hasWebhook |-> TRUE, webhook |-> hooks[Len(hooks)]]

\* lines 40-48
SelectWebhook(hooks) == ScanWebhooks(hooks, [hasWebhook |-> FALSE, webhook |-> NilWebhook])

\* ds.discordClient.Channel(id): the channel, looked up in the platform's state
ChannelByID(id) == CHOOSE c \in AllChannels(guilds) : c.ID = id

\* lines 56-60 and 68-76: the payload_json field opens the multi-part body
PayloadField(msg) ==
    [kind |-> "field", name |-> "payload_json", bytes |-> 0,
     payload |-> [username |-> msg.Author.Username,
                  avatar_url |-> msg.Author.AvatarURL,
                  content |-> msg.Body]]

\* line 83: writer.CreateFormFile(filename, filename) opens a file part; the
\* bytes DownloadFile writes go into it
FilePart(filename, written) ==
    [kind |-> "file", name |-> filename, bytes |-> written,
     payload |-> [username |-> "", avatar_url |-> "", content |-> ""]]

\* lines 37-78: take the next message, resolve its webhook, start the body.
\* listOK, channelOK and createOK are the outcomes of ChannelWebhooks, Channel
\* and WebhookCreate; their errors are discarded (lines 38, 51, 52), so a
\* failed listing is an empty one and a failed Channel or WebhookCreate leaves
\* a nil pointer that the next line dereferences.
Resolve(listOK, channelOK, createOK) ==
    LET msg == Head(MessagesChan)
        c == msg.TargetThreadID
        listing == IF listOK THEN webhooks[c] ELSE <<>>
        sel == SelectWebhook(listing)
        created == [ID |-> nextHookID, Token |-> 1000 + nextHookID, ChannelID |-> c,
                    Name |-> BridgeTag \o ChannelByID(c).Name]
        callsCreate == ~sel.hasWebhook /\ channelOK
        webhook == IF sel.hasWebhook THEN sel.webhook
                   ELSE IF channelOK /\ createOK THEN created ELSE NilWebhook
        panic == IF sel.hasWebhook THEN "none"
                 ELSE IF ~channelOK THEN "channel.Name"
                 ELSE IF ~createOK THEN "webhook.ID"
                 ELSE "none"
    IN  /\ MessagesChan' = Tail(MessagesChan)
        /\ resolutions' = LastTwo(Append(resolutions,
              [msg |-> msg.ID, channel |-> c, listOK |-> listOK,
               hadRecognized |-> Recognized(c) # {},
               hasWebhook |-> sel.hasWebhook,
               createCalled |-> callsCreate,
               webhook |-> webhook]))
        /\ lastPost' = NoPost
        /\ webhooks' = IF callsCreate /\ createOK
                       THEN [webhooks EXCEPT ![c] = Append(@, created)]
                       ELSE webhooks
        /\ nextHookID' = IF callsCreate /\ createOK THEN nextHookID + 1 ELSE nextHookID
        /\ panicAt' = panic
        /\ IF panic = "none"
           THEN /\ outPc' = "attach"
                /\ cur' = [msg |-> msg, webhook |-> webhook,
                           body |-> <<PayloadField(msg)>>, i |-> 1, results |-> <<>>]
           ELSE /\ outPc' = "dead"
                /\ cur' = [NoCur EXCEPT !.msg = msg]

HandleMessage ==
    /\ panicAt = "none"
    /\ outPc = "recv"
    /\ MessagesChan # <<>>
    /\ \E listOK \in BOOLEAN, channelOK \in BOOLEAN, createOK \in BOOLEAN :
          Resolve(listOK, channelOK, createOK)
    /\ UNCHANGED <<boot, guilds, hubCount, posted, pendingEvents, nextMsgID, bridgePosted,
                   lastHandled, hubSent, SearchRequestsChan, searchCount, searchResponses, dl>>

AfterAttachment_abort(err) == IF err = "nil" THEN "attach" ELSE "recv"

\* lines 88-91: an error of DownloadFile is printed and the loop continues
AfterAttachment(err) == "attach"

\* One iteration of the loop of lines 80-92
AttachFile ==
    /\ panicAt = "none"
    /\ outPc = "attach"
    /\ cur.i <= Len(cur.msg.Attachments)
    /\ \E head \in HeadOutcomes, get \in GetOutcomes :
          LET url == cur.msg.Attachments[cur.i].SourceURL
              res == DownloadFile(Remote(url), head, get)
          IN  /\ outPc' = AfterAttachment(res.err)
              /\ cur' = IF AfterAttachment(res.err) = "attach"
                        THEN [cur EXCEPT !.body = Append(@, FilePart(Base(url), res.written)),
                                         !.i = @ + 1,
                                         !.results = Append(@, res)]
                        ELSE NoCur
    /\ UNCHANGED <<boot, guilds, webhooks, nextHookID, MessagesChan, hubCount, resolutions,
                   posted, lastPost, panicAt, pendingEvents, nextMsgID, bridgePosted,
                   lastHandled, hubSent, SearchRequestsChan, searchCount, searchResponses, dl>>

\* Outcomes of client.Do(req): a transport error (a nil response), or a
\* response with a status code
PostOutcomes ==
    {[err |-> TRUE, StatusCode |-> 0]} \cup
    {[err |-> FALSE, StatusCode |-> s] : s \in {200, 204, 400}}

\* The MessageCreate event the platform emits for a message posted through a
\* webhook: its author and its WebhookID are the webhook
WebhookEvent(id, webhook, body) ==
    [ID |-> id, ChannelID |-> webhook.ChannelID,
     Author |-> [ID |-> webhook.ID, Username |-> body[1].payload.username],
     WebhookID |-> webhook.ID,
     Content |-> body[1].payload.content,
     Attachments |-> [k \in 1..(Len(body) - 1) |->
                         [ID |-> id * 10 + k, URL |-> <<"cdn", body[k + 1].name>>]]]

\* A variant of AfterPost that sends the message again when it was not accepted
AfterPost_retry(StatusCode) == IF StatusCode \in {200, 204} THEN "recv" ELSE "attach"

\* lines 114-121: a status other than 200 and 204 is only printed; whatever
\* the status, the loop goes on to the next message
AfterPost(StatusCode) == "recv"

\* lines 94-120: close the body and POST it to the webhook's URL
PostMessage ==
    /\ panicAt = "none"
    /\ outPc = "attach"
    /\ cur.i > Len(cur.msg.Attachments)
    /\ \E response \in PostOutcomes :
          /\ posted' = Append(posted, cur.msg.ID)
          /\ lastPost' =
                [msg |-> cur.msg, url |-> <<cur.webhook.ID, cur.webhook.Token>>,
                 body |-> cur.body, results |-> cur.results,
                 err |-> response.err, StatusCode |-> response.StatusCode]
          /\ IF response.err
             THEN /\ panicAt' = "response.StatusCode"
                  /\ outPc' = "dead"
                  /\ cur' = [NoCur EXCEPT !.msg = cur.msg]
                  /\ UNCHANGED <<pendingEvents, nextMsgID, bridgePosted>>
             ELSE /\ panicAt' = "none"
                  /\ outPc' = AfterPost(response.StatusCode)
                  /\ cur' = IF AfterPost(response.StatusCode) = "recv" THEN NoCur ELSE cur
                  /\ IF response.StatusCode \in {200, 204}
                     THEN /\ pendingEvents' = pendingEvents \cup
                                {WebhookEvent(nextMsgID, cur.webhook, cur.body)}
                          /\ bridgePosted' = bridgePosted \cup {nextMsgID}
                          /\ nextMsgID' = nextMsgID + 1
                     ELSE UNCHANGED <<pendingEvents, nextMsgID, bridgePosted>>
    /\ UNCHANGED <<boot, guilds, webhooks, nextHookID, MessagesChan, hubCount, resolutions,
                   lastHandled, hubSent, SearchRequestsChan, searchCount,
                   searchResponses, dl>>

-----------------------------------------------------------------------------
(* Inbound relay: discordMessageCreate, lines 171-205 *)

\* s.State.User.ID: the bridge's own platform account
SelfID == 7

\* Other platform accounts
UserIDs == {8}

\* Number of MessageCreate events that do not come from the bridge's own posts
MaxNativeEvents == 2

EventAttachmentLists ==
    {<<>>,
     <<[ID |-> 5, URL |-> <<"cdn", "cat.png">>]>>,
     <<[ID |-> 5, URL |-> <<"cdn", "cat.png">>], [ID |-> 6, URL |-> <<"cdn", "dog.png">>]>>}

\* MessageCreate events of messages the bridge did not post.  WebhookID is 0
\* (the empty string) for a message no webhook posted.
NativeEvents(id) ==
    {[ID |-> id, ChannelID |-> c,
      Author |-> [ID |-> a, Username |-> "bob"],
      WebhookID |-> w, Content |-> "yo", Attachments |-> atts] :
        c \in ChannelIDs(guilds), a \in {SelfID} \cup UserIDs,
        w \in {0} \cup {h.ID : h \in AllWebhooks}, atts \in EventAttachmentLists}

\* ds.discordClient.Webhook(id), line 177: the webhook, or an error when the
\* request fails or no webhook has this ID
Webhook(id, requestOK) ==
    IF requestOK /\ \E h \in AllWebhooks : h.ID = id
    THEN [err |-> FALSE, webhook |-> CHOOSE h \in AllWebhooks : h.ID = id]
    ELSE [err |-> TRUE, webhook |-> NilWebhook]

\* A MessageCreate event, as far as the handler reads it
NoEvent ==
    [ID |-> 0, ChannelID |-> 0, Author |-> [ID |-> 0, Username |-> ""],
     WebhookID |-> 0, Content |-> "", Attachments |-> <<>>]

\* No discordMessageCreate invocation yet
NoneHandled == [m |-> NoEvent, lookedUp |-> FALSE, lookupErr |-> FALSE, lookupName |-> <<>>]

IsSelf_never(m) == FALSE

\* line 173
IsSelf(m) == m.Author.ID = SelfID

IsBridgeWebhook_never(found) == FALSE

\* lines 178-182
IsBridgeWebhook(found) ==
    /\ ~found.err
    /\ found.webhook # NilWebhook
    /\ HasPrefix(found.webhook.Name, BridgeTag)

\* A variant of AttachmentInputs that builds the list back to front
AttachmentInputs_reversed(m) ==
    [k \in DOMAIN m.Attachments |->
        [Type |-> "IMAGE", OriginID |-> m.Attachments[Len(m.Attachments) + 1 - k].ID,
         SourceURL |-> m.Attachments[Len(m.Attachments) + 1 - k].URL]]

\* lines 184-194
AttachmentInputs(m) ==
    [k \in DOMAIN m.Attachments |->
        [Type |-> "IMAGE", OriginID |-> m.Attachments[k].ID,
         SourceURL |-> m.Attachments[k].URL]]

\* The arguments of ds.client.SendMessage, lines 196-204
SendMessageCall(m) ==
    [Body |-> m.Content, OriginID |-> m.ID, OriginThreadID |-> m.ChannelID,
     Username |-> m.Author.Username, AuthorOriginID |-> m.Author.ID,
     AvatarURL |-> <<"avatar", m.Author.ID, "medium">>,
     Attachments |-> AttachmentInputs(m)]

\* The whole handler, for event m and the outcome of its webhook lookup
discordMessageCreate(m, requestOK) ==
    LET found == Webhook(m.WebhookID, requestOK)
        sends == ~IsSelf(m) /\ ~IsBridgeWebhook(found)
    IN  /\ hubSent' = IF sends THEN Append(hubSent, SendMessageCall(m)) ELSE hubSent
        /\ lastHandled' = [m |-> m,
                           lookedUp |-> ~IsSelf(m),
                           lookupErr |-> found.err,
                           lookupName |-> found.webhook.Name]

\* The platform dispatches the event of a message the bridge posted
DispatchBridgeEvent ==
    /\ panicAt = "none"
    /\ \E m \in pendingEvents, requestOK \in BOOLEAN :
          /\ discordMessageCreate(m, requestOK)
          /\ pendingEvents' = pendingEvents \ {m}
    /\ UNCHANGED <<boot, guilds, webhooks, nextHookID, MessagesChan, hubCount, outPc, cur,
                   resolutions, posted, lastPost, panicAt, nextMsgID, bridgePosted,
                   SearchRequestsChan, searchCount, searchResponses, dl>>

\* The platform dispatches the event of somebody else's message
DispatchNativeEvent ==
    /\ panicAt = "none"
    /\ nextMsgID - 1 - Cardinality(bridgePosted) < MaxNativeEvents
    /\ \E m \in NativeEvents(nextMsgID), requestOK \in BOOLEAN :
          discordMessageCreate(m, requestOK)
    /\ nextMsgID' = nextMsgID + 1
    /\ UNCHANGED <<boot, guilds, webhooks, nextHookID, MessagesChan, hubCount, outPc, cur,
                   resolutions, posted, lastPost, panicAt, pendingEvents, bridgePosted,
                   SearchRequestsChan, searchCount, searchResponses, dl>>

-----------------------------------------------------------------------------
(* A single DownloadFile call, on a wider range of sources *)

ContentLengths ==
    {-1, 0, 3, ContentLengthLimit - 1, ContentLengthLimit, ContentLengthLimit + 1,
     2 * ContentLengthLimit}

BodyLengths ==
    {0, 3, ContentLengthLimit - 1, ContentLengthLimit, ContentLengthLimit + 1}

\* DownloadFile is called on the source, with the outcomes of its two requests
DownloadCall ==
    /\ dl.phase = "call"
    /\ dl' = [dl EXCEPT !.phase = "done",
                        !.res = DownloadFile(dl.src, dl.head, dl.get)]
    /\ UNCHANGED <<boot, guilds, webhooks, nextHookID, MessagesChan, hubCount, outPc, cur,
                   resolutions, posted, lastPost, panicAt, pendingEvents, nextMsgID,
                   bridgePosted, lastHandled, hubSent, SearchRequestsChan, searchCount,
                   searchResponses>>

NoDownload ==
    [phase |-> "none", src |-> [declared |-> 0, body |-> 0], head |-> "ok",
     get |-> "ok", res |-> [err |-> "nil", getIssued |-> FALSE, written |-> 0]]

-----------------------------------------------------------------------------
(* Startup: configuration and connection *)

\* The schema the bridge publishes: one masked, required string field
GetConfigurationSchema ==
    <<[Type |-> "STRING", Name |-> "botToken", Hint |-> "Your Discord bot token",
       DefaultValue |-> "", Optional |-> FALSE, Mask |-> TRUE]>>

\* The configuration file: absent, or present with contents that parse or not
NoFile == [exists |-> FALSE, valid |-> FALSE, BotToken |-> ""]
RecordFile(token) == [exists |-> TRUE, valid |-> TRUE, BotToken |-> token]
CorruptFile == [exists |-> TRUE, valid |-> FALSE, BotToken |-> ""]

InitialFiles == {NoFile, RecordFile("t0"), CorruptFile}

\* os.Stat on the file: only "does not exist" counts as not configured
IsConfigured(file) == file.exists

Field(name, value) == [Name |-> name, Value |-> value]

\* The field values the hub may deliver for the schema
Submissions ==
    UNION {{<<Field("botToken", t)>>,
            <<Field("other", "x"), Field("botToken", t)>>,
            <<Field("botToken", t), Field("other", "x")>>} : t \in {"t1", "t2"}}
    \cup {<<Field("other", "x")>>}

\* A variant of SavedBotToken that takes the value of the first field
SavedBotToken_first(conf) == IF conf = <<>> THEN "" ELSE conf[1].Value

\* The loop of SaveConfiguration: the value of the field named "botToken"
\* (of the last one, were there several), "" when there is none
SavedBotToken(conf) ==
    LET named == {i \in DOMAIN conf : conf[i].Name = "botToken"}
    IN  IF named = {} THEN ""
        ELSE conf[CHOOSE i \in named : \A j \in named : j <= i].Value

\* ioutil.WriteFile, whose error is discarded: the record is written, or
\* nothing is, or the file is left truncated
WriteOutcomes == {"ok", "err", "short"}

SaveConfiguration(file, conf, write) ==
    CASE write = "ok" -> RecordFile(SavedBotToken(conf))
      [] write = "short" -> CorruptFile
      [] OTHER -> file

\* ioutil.ReadFile then json.Unmarshal: either may fail
GetConfiguration(file, readOK) ==
    IF file.exists /\ readOK /\ file.valid
    THEN [err |-> FALSE, BotToken |-> file.BotToken]
    ELSE [err |-> TRUE, BotToken |-> ""]

NoSession == <<>>

\* Startup before its first step, the configuration file being as found
Starting(file) ==
    [pc |-> "start", file |-> file, existed |-> file.exists, schema |-> <<>>,
     FieldValues |-> <<>>, loaded |-> FALSE, BotToken |-> "", session |-> NoSession,
     newErr |-> FALSE, openErr |-> FALSE, handler |-> FALSE,
     searchSubscribed |-> FALSE, handleMessages |-> FALSE]

\* Startup once it has reached its loops with an existing record
Booted ==
    [Starting(RecordFile("t0")) EXCEPT
        !.pc = "running", !.loaded = TRUE, !.BotToken = "t0",
        !.session = <<"Bot ", "t0">>, !.handler = TRUE,
        !.searchSubscribed = TRUE, !.handleMessages = TRUE]

\* Lines 125-132: connect to the hub, then publish the schema when there is
\* no configuration file
CheckConfigured ==
    /\ boot.pc = "start"
    /\ boot' = IF ~IsConfigured(boot.file)
               THEN [boot EXCEPT !.pc = "await", !.schema = GetConfigurationSchema]
               ELSE [boot EXCEPT !.pc = "load"]
    /\ UNCHANGED <<guilds, webhooks, nextHookID, MessagesChan, hubCount, outPc, cur,
                   resolutions, posted, lastPost, panicAt, pendingEvents, nextMsgID,
                   bridgePosted, lastHandled, hubSent, SearchRequestsChan, searchCount,
                   searchResponses, dl>>

\* Lines 133-134: the blocked receive on ConfigurationRecvChan returns and the
\* values are saved
ReceiveConfiguration ==
    /\ boot.pc = "await"
    /\ \E conf \in Submissions, write \in WriteOutcomes :
          boot' = [boot EXCEPT !.pc = "load", !.FieldValues = conf,
                               !.file = SaveConfiguration(boot.file, conf, write)]
    /\ UNCHANGED <<guilds, webhooks, nextHookID, MessagesChan, hubCount, outPc, cur,
                   resolutions, posted, lastPost, panicAt, pendingEvents, nextMsgID,
                   bridgePosted, lastHandled, hubSent, SearchRequestsChan, searchCount,
                   searchResponses, dl>>

\* Lines 137-141: the record is read back; log.Fatal when that fails
LoadConfiguration ==
    /\ boot.pc = "load"
    /\ \E readOK \in BOOLEAN :
          LET serviceConfiguration == GetConfiguration(boot.file, readOK)
          IN  boot' = IF serviceConfiguration.err
                      THEN [boot EXCEPT !.pc = "fatal"]
                      ELSE [boot EXCEPT !.pc = "session", !.loaded = TRUE,
                                        !.BotToken = serviceConfiguration.BotToken]
    /\ UNCHANGED <<guilds, webhooks, nextHookID, MessagesChan, hubCount, outPc, cur,
                   resolutions, posted, lastPost, panicAt, pendingEvents, nextMsgID,
                   bridgePosted, lastHandled, hubSent, SearchRequestsChan, searchCount,
                   searchResponses, dl>>

\* Lines 143-144: discordgo.New returns the session it allocated together with
\* its error, which is never read; the handler is registered on the session
NewSession ==
    /\ boot.pc = "session"
    /\ \E newOK \in BOOLEAN :
          boot' = [boot EXCEPT !.pc = "open", !.session = <<"Bot ", boot.BotToken>>,
                               !.newErr = ~newOK, !.handler = TRUE]
    /\ UNCHANGED <<guilds, webhooks, nextHookID, MessagesChan, hubCount, outPc, cur,
                   resolutions, posted, lastPost, panicAt, pendingEvents, nextMsgID,
                   bridgePosted, lastHandled, hubSent, SearchRequestsChan, searchCount,
                   searchResponses, dl>>

\* Lines 146-151: the connection is opened and its error discarded, search
\* requests are subscribed to and handleMessages is started
OpenSession ==
    /\ boot.pc = "open"
    /\ \E openOK \in BOOLEAN :
          boot' = [boot EXCEPT !.pc = "running", !.openErr = ~openOK,
                               !.searchSubscribed = TRUE, !.handleMessages = TRUE]
    /\ UNCHANGED <<guilds, webhooks, nextHookID, MessagesChan, hubCount, outPc, cur,
                   resolutions, posted, lastPost, panicAt, pendingEvents, nextMsgID,
                   bridgePosted, lastHandled, hubSent, SearchRequestsChan, searchCount,
                   searchResponses, dl>>

-----------------------------------------------------------------------------
(* Specifications *)

\* The bridge once Startup has reached its loops (line 147): nothing consumed,
\* nothing posted, no event lastHandled
Running ==
    /\ boot = Booted
    /\ nextHookID = 10
    /\ MessagesChan = <<>>
    /\ hubCount = 0
    /\ outPc = "recv"
    /\ cur = NoCur
    /\ resolutions = <<>>
    /\ posted = <<>>
    /\ lastPost = NoPost
    /\ panicAt = "none"
    /\ pendingEvents = {}
    /\ nextMsgID = 1
    /\ bridgePosted = {}
    /\ lastHandled = NoneHandled
    /\ hubSent = <<>>
    /\ SearchRequestsChan = <<>>
    /\ searchCount = 0
    /\ searchResponses = <<>>

\* The webhooks the first channel may already have: none, a foreign one, or a
\* foreign one and one an earlier run of the bridge created
InitialWebhooks(c, name) ==
    {<<>>, <<ForeignWebhook(c)>>, <<ForeignWebhook(c), EarlierWebhook(c, name)>>}

Init ==
    /\ guilds = RelayGuilds
    /\ \E first \in InitialWebhooks(101, ChannelNameOf(1)) :
          webhooks = [c \in ChannelIDs(RelayGuilds) |-> IF c = 101 THEN first ELSE <<>>]
    /\ Running
    /\ dl = NoDownload

\* The outbound loop and the events its own posts come back as
Next ==
    \/ HubDeliver
    \/ HandleMessage
    \/ AttachFile
    \/ PostMessage
    \/ DispatchBridgeEvent

Spec == Init /\ [][Next]_vars

\* The inbound handler on the events of other people's messages
NextInbound == DispatchNativeEvent

SpecInbound == Init /\ [][NextInbound]_vars

\* The search loop alone, on worlds with many guilds and channels
InitSearch ==
    /\ guilds \in SearchWorlds
    /\ webhooks = [c \in ChannelIDs(guilds) |-> <<>>]
    /\ Running
    /\ dl = NoDownload

NextSearch ==
    \/ SearchRequest
    \/ SearchRespond

SpecSearch == InitSearch /\ [][NextSearch]_vars

\* DownloadFile alone, on every source and outcome
InitDownload ==
    /\ guilds = RelayGuilds
    /\ webhooks = [c \in ChannelIDs(RelayGuilds) |-> <<>>]
    /\ Running
    /\ \E declared \in ContentLengths, body \in BodyLengths,
          head \in HeadOutcomes, get \in GetOutcomes :
          dl = [NoDownload EXCEPT !.phase = "call",
                                  !.src = [declared |-> declared, body |-> body],
                                  !.head = head, !.get = get]

NextDownload == DownloadCall

SpecDownload == InitDownload /\ [][NextDownload]_vars

\* The three lanes together, on one hub message, one search request and one
\* event of somebody else's message.  The search loop is the main goroutine,
\* which the Go scheduler keeps running: it takes a request that is waiting.
\* Nothing is assumed of the outbound loop, which may stay in a download or
\* in its POST for ever.
LaneHubDeliver ==
    /\ panicAt = "none"
    /\ hubCount = 0
    /\ \E msg \in {m \in HubMessages(1) : m.TargetThreadID = 101} :
          MessagesChan' = Append(MessagesChan, msg)
    /\ hubCount' = hubCount + 1
    /\ UNCHANGED <<boot, guilds, webhooks, nextHookID, outPc, cur, resolutions, posted,
                   lastPost, panicAt, pendingEvents, nextMsgID, bridgePosted,
                   lastHandled, hubSent, SearchRequestsChan, searchCount,
                   searchResponses, dl>>

LaneSearchRequest ==
    /\ searchCount = 0
    /\ SearchRequest

LaneNativeEvent ==
    /\ panicAt = "none"
    /\ lastHandled = NoneHandled
    /\ \E m \in {e \in NativeEvents(nextMsgID) :
                     e.ChannelID = 101 /\ e.WebhookID = 0 /\ e.Attachments = <<>>} :
          discordMessageCreate(m, TRUE)
    /\ nextMsgID' = nextMsgID + 1
    /\ UNCHANGED <<boot, guilds, webhooks, nextHookID, MessagesChan, hubCount, outPc, cur,
                   resolutions, posted, lastPost, panicAt, pendingEvents, bridgePosted,
                   SearchRequestsChan, searchCount, searchResponses, dl>>

NextLanes ==
    \/ LaneHubDeliver
    \/ HandleMessage
    \/ AttachFile
    \/ PostMessage
    \/ LaneSearchRequest
    \/ SearchRespond
    \/ LaneNativeEvent

SpecLanes == Init /\ [][NextLanes]_vars /\ WF_vars(SearchRespond)

\* Startup alone, from every state of the configuration file
InitStartup ==
    /\ guilds = RelayGuilds
    /\ webhooks = [c \in ChannelIDs(RelayGuilds) |-> <<>>]
    /\ nextHookID = 10
    /\ MessagesChan = <<>>
    /\ hubCount = 0
    /\ outPc = "recv"
    /\ cur = NoCur
    /\ resolutions = <<>>
    /\ posted = <<>>
    /\ lastPost = NoPost
    /\ panicAt = "none"
    /\ pendingEvents = {}
    /\ nextMsgID = 1
    /\ bridgePosted = {}
    /\ lastHandled = NoneHandled
    /\ hubSent = <<>>
    /\ SearchRequestsChan = <<>>
    /\ searchCount = 0
    /\ searchResponses = <<>>
    /\ dl = NoDownload
    /\ \E file \in InitialFiles : boot = Starting(file)

NextStartup ==
    \/ CheckConfigured
    \/ ReceiveConfiguration
    \/ LoadConfiguration
    \/ NewSession
    \/ OpenSession

SpecStartup == InitStartup /\ [][NextStartup]_vars

-----------------------------------------------------------------------------
(* Properties *)

\* The SendMessage calls made for the platform message with this ID
SentFor(id) == {i \in DOMAIN hubSent : hubSent[i].OriginID = id}

\* C1 (SpecInbound).  Loop suppression: when the handled event is not
\* self-authored and its webhook reference resolved to a webhook whose name
\* starts with "ChatPlug ", discordMessageCreate made no SendMessage call for it.
C1_LoopSuppression ==
    (/\ lastHandled.m.ID # 0
     /\ lastHandled.m.Author.ID # SelfID
     /\ ~lastHandled.lookupErr
     /\ HasPrefix(lastHandled.lookupName, <<"C", "h", "a", "t", "P", "l", "u", "g", " ">>))
    => SentFor(lastHandled.m.ID) = {}

\* A user's event that refers to the bridge's webhook was handled, and the
\* lookup of the webhook succeeded
C1_Witness ==
    /\ lastHandled.m.ID # 0
    /\ lastHandled.m.Author.ID \in UserIDs
    /\ lastHandled.m.WebhookID # 0
    /\ lastHandled.lookedUp
    /\ ~lastHandled.lookupErr
    /\ HasPrefix(lastHandled.lookupName, BridgeTag)
    /\ SentFor(lastHandled.m.ID) = {}

\* C2 (SpecInbound).  Self-author suppression: when the handled event's author
\* is the bridge's own account, discordMessageCreate made no SendMessage call
\* for it, whatever its webhook reference and attachments.
C2_SelfAuthorSuppression ==
    (lastHandled.m.ID # 0 /\ lastHandled.m.Author.ID = SelfID)
    => SentFor(lastHandled.m.ID) = {}

\* A self-authored event with attachments and no webhook reference was handled
C2_Witness ==
    /\ lastHandled.m.ID # 0
    /\ lastHandled.m.Author.ID = SelfID
    /\ lastHandled.m.WebhookID = 0
    /\ lastHandled.m.Attachments # <<>>
    /\ SentFor(lastHandled.m.ID) = {}

\* C3 (Spec).  End-to-end no echo: no SendMessage call is ever made for a
\* platform message that the bridge's own POST created.
C3_NoEcho == \A i \in DOMAIN hubSent : hubSent[i].OriginID \notin bridgePosted

\* C4 (Spec).  Single recognized proxy: every channel has at most one webhook
\* whose name starts with "ChatPlug ", and WebhookCreate is never called for a
\* channel that has one.
C4_SingleRecognizedProxy ==
    /\ \A c \in DOMAIN webhooks : Cardinality(Recognized(c)) <= 1
    /\ \A i \in DOMAIN resolutions :
          resolutions[i].createCalled => ~resolutions[i].hadRecognized

\* C5 (Spec).  Proxy idempotence: of two consecutive resolutions for the same
\* channel, made while the channel has a recognized webhook and with both
\* listings succeeding, both select the same webhook (ID and token) and
\* neither calls WebhookCreate.
C5_ProxyIdempotence ==
    (/\ Len(resolutions) = 2
     /\ resolutions[1].channel = resolutions[2].channel
     /\ resolutions[1].hadRecognized
     /\ resolutions[1].listOK
     /\ resolutions[2].listOK)
    => /\ resolutions[1].webhook.ID = resolutions[2].webhook.ID
       /\ resolutions[1].webhook.Token = resolutions[2].webhook.Token
       /\ resolutions[1].webhook.ID # 0
       /\ ~resolutions[1].createCalled
       /\ ~resolutions[2].createCalled

\* Two messages for the same channel were resolved against successful
\* listings that held a recognized webhook
C5_Witness ==
    /\ Len(resolutions) = 2
    /\ resolutions[1].channel = resolutions[2].channel
    /\ resolutions[1].hadRecognized /\ resolutions[1].listOK
    /\ resolutions[2].hadRecognized /\ resolutions[2].listOK
    /\ resolutions[1].webhook = resolutions[2].webhook
    /\ HasPrefix(resolutions[2].webhook.Name, BridgeTag)

\* C6 (SpecDownload).  Size ceiling: when the HEAD response declares more
\* than 8*1024*1024 bytes, DownloadFile returns an error, issues no GET and
\* writes nothing; when it declares 8*1024*1024 - 1 or 8*1024*1024 bytes,
\* DownloadFile does not refuse the source and issues the GET.
C6_SizeCeiling ==
    (dl.phase = "done" /\ dl.head = "ok")
    => /\ dl.src.declared > 8 * 1024 * 1024
            => /\ dl.res.err # "nil"
               /\ ~dl.res.getIssued
               /\ dl.res.written = 0
       /\ dl.src.declared \in {8 * 1024 * 1024 - 1, 8 * 1024 * 1024}
            => /\ dl.res.err # "toobig"
               /\ dl.res.getIssued

\* A source declaring one byte more than the ceiling was refused
C6_Witness ==
    /\ dl.phase = "done"
    /\ dl.head = "ok"
    /\ dl.src.declared = 8 * 1024 * 1024 + 1
    /\ dl.res.err = "toobig"
    /\ dl.res.written = 0

\* C7 (SpecSearch).  Search bound: every list passed to SetSearchResponse has
\* at most 30 entries, and every entry's OriginID is the ID of a text channel
\* of a guild.
C7_SearchBound ==
    \A i \in DOMAIN searchResponses :
        /\ Len(searchResponses[i].Results) <= 30
        /\ \A k \in DOMAIN searchResponses[i].Results :
              \E c \in AllChannels(guilds) :
                 /\ c.ID = searchResponses[i].Results[k].OriginID
                 /\ c.Type = "GuildText"

\* A response was cut at 30 entries although the first guild, whose channels
\* were listed, has a voice channel that matches the query
C7_Witness ==
    \E i \in DOMAIN searchResponses :
        /\ Len(searchResponses[i].Results) = 30
        /\ guilds[1].ID \in searchResponses[i].listed
        /\ \E j \in DOMAIN guilds[1].Channels :
              /\ guilds[1].Channels[j].Type = "GuildVoice"
              /\ \/ Contains(guilds[1].Channels[j].Name, searchResponses[i].Query)
                 \/ Contains(guilds[1].Name, searchResponses[i].Query)

\* The loop is at a message with two attachments
TwoAttachments ==
    /\ cur.msg.ID # 0
    /\ Len(cur.msg.Attachments) = 2

\* C8 (Spec).  Partial attachment failure: the loop leaves a message with two
\* attachments only by issuing its POST, after both downloads were tried,
\* whatever the first download returned; and when the first download failed
\* and the second succeeded, the posted body holds the payload_json field and
\* the second attachment's file part with the bytes downloaded.
C8_PartialAttachmentFailure ==
    [][(TwoAttachments /\ cur' # cur)
       => \/ /\ cur'.msg = cur.msg
             /\ Len(cur'.results) = Len(cur.results) + 1
             /\ Len(cur'.results) <= 2
          \/ /\ Len(cur.results) = 2
             /\ lastPost'.msg = cur.msg
             /\ posted' = Append(posted, cur.msg.ID)
             /\ (cur.results[1].err # "nil" /\ cur.results[2].err = "nil")
                   => /\ lastPost'.body[1].kind = "field"
                      /\ lastPost'.body[1].name = "payload_json"
                      /\ lastPost'.body[1].payload.content = cur.msg.Body
                      /\ \E k \in 2..Len(lastPost'.body) :
                            /\ lastPost'.body[k].kind = "file"
                            /\ lastPost'.body[k].name = Base(cur.msg.Attachments[2].SourceURL)
                            /\ lastPost'.body[k].bytes =
                                  Remote(cur.msg.Attachments[2].SourceURL).body]_vars

\* A message whose first download failed and whose second succeeded was
\* posted, and the platform accepted it
C8_Witness ==
    /\ lastPost.msg.ID # 0
    /\ Len(lastPost.msg.Attachments) = 2
    /\ Len(lastPost.results) = 2
    /\ lastPost.results[1].err # "nil"
    /\ lastPost.results[2].err = "nil"
    /\ ~lastPost.err
    /\ lastPost.StatusCode = 204

\* C9 (Spec).  Send-failure isolation: a POST that fails, by a transport error
\* or by a status other than 200 and 204, does not end the consume loop.
C9_SendFailureIsolation ==
    (/\ lastPost.msg.ID # 0
     /\ lastPost.err \/ lastPost.StatusCode \notin {200, 204})
    => /\ panicAt = "none"
       /\ outPc # "dead"

\* C10 (Spec).  Proxy-resolution failure drops only that message: when the
\* last resolution found no recognized webhook and the channel lookup or the
\* creation failed, no POST was issued for the message and the process goes on.
C10_ResolutionFailureIsolation ==
    (/\ resolutions # <<>>
     /\ ~resolutions[Len(resolutions)].hasWebhook
     /\ resolutions[Len(resolutions)].webhook = NilWebhook)
    => /\ panicAt = "none"
       /\ outPc # "dead"
       /\ lastPost.msg.ID # resolutions[Len(resolutions)].msg

\* C11 (Spec).  Create-before-post: whenever a POST is issued for a message
\* whose channel had no webhook with the tag when the message was resolved,
\* that resolution, made before the POST, called WebhookCreate; the webhook
\* it created is then the single recognized webhook of the channel, and the
\* POST goes to the ID and token of that webhook.
C11_CreateBeforePost ==
    [][(lastPost' # lastPost /\ lastPost'.msg.ID # 0)
       => /\ resolutions # <<>>
          /\ LET r == resolutions[Len(resolutions)]
                 c == lastPost'.msg.TargetThreadID
             IN  /\ r.msg = lastPost'.msg.ID
                 /\ r.channel = c
                 /\ \A k \in DOMAIN posted : posted[k] # r.msg
                 /\ ~r.hadRecognized
                       => /\ r.createCalled
                          /\ Cardinality(Recognized(c)) = 1
                          /\ \A i \in Recognized(c) : webhooks[c][i] = r.webhook
                          /\ r.webhook.Name = BridgeTag \o ChannelByID(c).Name
                          /\ lastPost'.url = <<r.webhook.ID, r.webhook.Token>>]_vars

\* A message whose channel had no recognized webhook was posted to the
\* webhook its resolution created
C11_Witness ==
    /\ lastPost.msg.ID # 0
    /\ resolutions # <<>>
    /\ resolutions[Len(resolutions)].msg = lastPost.msg.ID
    /\ ~resolutions[Len(resolutions)].hadRecognized
    /\ resolutions[Len(resolutions)].createCalled
    /\ lastPost.url = <<resolutions[Len(resolutions)].webhook.ID,
                        resolutions[Len(resolutions)].webhook.Token>>
    /\ lastPost.url[1] >= 10

\* The fields named "botToken" among the values the hub delivered
SubmittedBotTokens == {i \in DOMAIN boot.FieldValues : boot.FieldValues[i].Name = "botToken"}

\* C12 (SpecStartup).  Bootstrap gating: past its first step Startup has
\* published the schema exactly when no configuration file existed, and then
\* it goes on only once values were delivered; with an existing file nothing
\* is published and nothing awaited.  A record written from delivered values
\* holds the submitted botToken, and a session exists only once the record has
\* been read back, with the token of that record.
C12_BootstrapGating ==
    /\ boot.pc = "start" => boot.schema = <<>>
    /\ boot.pc # "start" => ((boot.schema = GetConfigurationSchema) <=> ~boot.existed)
    /\ boot.existed => (boot.schema = <<>> /\ boot.FieldValues = <<>>)
    /\ (~boot.existed /\ boot.pc \notin {"start", "await"}) => boot.FieldValues # <<>>
    /\ boot.pc \in {"start", "await", "load", "fatal"}
          => (boot.session = NoSession /\ ~boot.loaded /\ ~boot.handler)
    /\ (boot.FieldValues # <<>> /\ boot.file.valid)
          => \A i \in SubmittedBotTokens : boot.file.BotToken = boot.FieldValues[i].Value
    /\ boot.session # NoSession
          => /\ boot.loaded
             /\ boot.file.valid
             /\ boot.BotToken = boot.file.BotToken
             /\ boot.session = <<"Bot ", boot.file.BotToken>>

\* Startup found no file, received the token after another field, and
\* reached its loops with a session for that token
C12_Witness ==
    /\ boot.pc = "running"
    /\ ~boot.existed
    /\ boot.schema = GetConfigurationSchema
    /\ boot.FieldValues = <<Field("other", "x"), Field("botToken", "t2")>>
    /\ boot.session = <<"Bot ", "t2">>

\* C13 (SpecStartup).  Connecting failures are fatal: when reading the
\* record back, creating the session or opening the connection has failed,
\* Startup never subscribes to search requests and never starts
\* handleMessages.
C13_ConnectingFailuresFatal ==
    (boot.pc = "fatal" \/ boot.newErr \/ boot.openErr)
    => /\ boot.pc # "running"
       /\ ~boot.searchSubscribed
       /\ ~boot.handleMessages

\* C14 (Spec).  FIFO relay: messages carry the order of their consumption in
\* their IDs.  Every POST is for the message resolved last, which has not
\* been posted before and is later than every message posted so far; and a
\* message is resolved only when the loop holds no earlier message, so the
\* POST of an earlier message never follows the resolution of a later one.
C14_FifoRelay ==
    [][/\ posted' # posted
          => /\ posted' = Append(posted, cur.msg.ID)
             /\ cur.msg.ID # 0
             /\ \A k \in DOMAIN posted : posted[k] < cur.msg.ID
             /\ resolutions # <<>>
             /\ resolutions[Len(resolutions)].msg = cur.msg.ID
       /\ resolutions' # resolutions
          => /\ cur = NoCur
             /\ resolutions'[Len(resolutions')].msg = Head(MessagesChan).ID
             /\ \A k \in DOMAIN posted : posted[k] < Head(MessagesChan).ID
             /\ \A k \in DOMAIN resolutions :
                   resolutions[k].msg < Head(MessagesChan).ID]_vars

\* Two messages were posted, in the order of their consumption
C14_Witness ==
    /\ posted = <<1, 2>>
    /\ lastPost.msg.ID = 2
    /\ Len(resolutions) = 2
    /\ resolutions[1].msg = 1
    /\ resolutions[2].msg = 2

\* The attachments of the last POST whose download succeeded
Downloaded == {k \in DOMAIN lastPost.results : lastPost.results[k].err = "nil"}

\* C15 (Spec).  Failed attachment parts are omitted: the body of a POST holds,
\* after the payload_json field, exactly one file part per attachment whose
\* download succeeded, in attachment order, and no part for a failed one.
C15_FailedPartsOmitted ==
    lastPost.msg.ID # 0
    => /\ Len(lastPost.body) = 1 + Cardinality(Downloaded)
       /\ \A j \in 2..Len(lastPost.body) :
             /\ lastPost.body[j].kind = "file"
             /\ \E k \in Downloaded :
                   /\ Cardinality({l \in Downloaded : l < k}) = j - 2
                   /\ lastPost.body[j].name = Base(lastPost.msg.Attachments[k].SourceURL)

\* The last resolution, made against a successful listing of a channel that
\* holds several webhooks with the tag
SeveralRecognized ==
    /\ resolutions # <<>>
    /\ resolutions[Len(resolutions)].listOK
    /\ Cardinality(Recognized(resolutions[Len(resolutions)].channel)) >= 2

\* The resolution selected the webhook at index i of the channel's listing,
\* and the POST of that message, once made, went to its ID and token
SelectedAt(i) ==
    LET r == resolutions[Len(resolutions)]
        hook == webhooks[r.channel][i]
    IN  /\ r.hasWebhook
        /\ ~r.createCalled
        /\ r.webhook = hook
        /\ lastPost.msg.ID = r.msg => lastPost.url = <<hook.ID, hook.Token>>

\* C16 (Spec), as claimed.  First-match selection: of several webhooks with
\* the tag in a listing, the first in listing order is selected and posted to.
C16_FirstMatchSelection ==
    SeveralRecognized
    => \E i \in Recognized(resolutions[Len(resolutions)].channel) :
          /\ \A j \in Recognized(resolutions[Len(resolutions)].channel) : i <= j
          /\ SelectedAt(i)

\* C16 (Spec), amended.  Last-match selection: of several webhooks with the
\* tag in a listing, the last in listing order is selected and posted to.
C16_LastMatchSelection ==
    SeveralRecognized
    => \E i \in Recognized(resolutions[Len(resolutions)].channel) :
          /\ \A j \in Recognized(resolutions[Len(resolutions)].channel) : j <= i
          /\ SelectedAt(i)

\* A message was posted to the later of two webhooks with the tag
C16_Witness ==
    /\ SeveralRecognized
    /\ lastPost.msg.ID = resolutions[Len(resolutions)].msg
    /\ lastPost.msg.ID # 0
    /\ lastPost.url[1] = 10
    /\ \E i \in Recognized(lastPost.msg.TargetThreadID) :
          webhooks[lastPost.msg.TargetThreadID][i].ID = 2

\* The channels a search keeps, as <<guild index, channel index>>: the text
\* channels, among those of the guilds whose channels were listed, whose name
\* or whose guild's name contains the query
Candidates(listed, query) ==
    {p \in UNION {{<<g, j>> : j \in DOMAIN guilds[g].Channels} : g \in DOMAIN guilds} :
        /\ guilds[p[1]].ID \in listed
        /\ guilds[p[1]].Channels[p[2]].Type = "GuildText"
        /\ \/ Contains(guilds[p[1]].Channels[p[2]].Name, query)
           \/ Contains(guilds[p[1]].Name, query)}

\* The position of p among the pairs of set in guild-then-channel order
RankOf(p, set) ==
    1 + Cardinality({q \in set : q[1] < p[1] \/ (q[1] = p[1] /\ q[2] < p[2])})

\* C17 (SpecSearch).  Search result exactness: each SetSearchResponse call
\* consumes one request and carries its query; its list is the first 30 (or
\* all, if fewer) of the kept channels in guild-then-channel order, each
\* entry named "<guild> - <channel>" with the channel's ID as OriginID.  The
\* channels of a guild are those GuildChannels returned for it.
C17_SearchExactness ==
    [][searchResponses' # searchResponses
       => /\ SearchRequestsChan # <<>>
          /\ SearchRequestsChan' = Tail(SearchRequestsChan)
          /\ searchResponses' = Append(searchResponses,
                                       searchResponses'[Len(searchResponses')])
          /\ LET resp == searchResponses'[Len(searchResponses')]
                 kept == Candidates(resp.listed, resp.Query)
             IN  /\ resp.Query = Head(SearchRequestsChan).Query
                 /\ Len(resp.Results) =
                       IF Cardinality(kept) < 30 THEN Cardinality(kept) ELSE 30
                 /\ \A p \in kept :
                       RankOf(p, kept) <= 30
                       => /\ resp.Results[RankOf(p, kept)].Name =
                                guilds[p[1]].Name \o <<" ", "-", " ">>
                                   \o guilds[p[1]].Channels[p[2]].Name
                          /\ resp.Results[RankOf(p, kept)].OriginID =
                                guilds[p[1]].Channels[p[2]].ID]_vars

\* A response of 30 entries, one of them kept for its guild's name alone, in
\* a world that has more than 30 channels to keep
C17_Witness ==
    \E i \in DOMAIN searchResponses :
        /\ searchResponses[i].Query = <<"b">>
        /\ Len(searchResponses[i].Results) = 30
        /\ Cardinality(Candidates(searchResponses[i].listed, <<"b">>)) > 30
        /\ \E k \in DOMAIN searchResponses[i].Results :
              searchResponses[i].Results[k].Name = <<"a", "b", " ", "-", " ", "x">>

\* The handled event is somebody else's and its webhook reference is absent,
\* did not resolve, or resolved to a webhook without the tag
MustForward ==
    /\ lastHandled.m.ID # 0
    /\ lastHandled.m.Author.ID # SelfID
    /\ lastHandled.lookupErr \/ ~HasPrefix(lastHandled.lookupName, BridgeTag)

\* C19 (SpecInbound).  Inbound forwarding completeness: for such an event
\* discordMessageCreate made exactly one SendMessage call, with the event's
\* content, message ID, channel ID, author username and author ID, and one
\* attachment of kind "IMAGE" per event attachment, in order, with its URL.
C19_ForwardingCompleteness ==
    MustForward
    => /\ Cardinality(SentFor(lastHandled.m.ID)) = 1
       /\ \A i \in SentFor(lastHandled.m.ID) :
             /\ hubSent[i].Body = lastHandled.m.Content
             /\ hubSent[i].OriginID = lastHandled.m.ID
             /\ hubSent[i].OriginThreadID = lastHandled.m.ChannelID
             /\ hubSent[i].Username = lastHandled.m.Author.Username
             /\ hubSent[i].AuthorOriginID = lastHandled.m.Author.ID
             /\ Len(hubSent[i].Attachments) = Len(lastHandled.m.Attachments)
             /\ \A k \in DOMAIN lastHandled.m.Attachments :
                   /\ hubSent[i].Attachments[k].SourceURL = lastHandled.m.Attachments[k].URL
                   /\ hubSent[i].Attachments[k].Type = "IMAGE"

\* An event with two attachments, posted through a webhook without the tag,
\* was forwarded
C19_Witness ==
    /\ MustForward
    /\ ~lastHandled.lookupErr
    /\ lastHandled.lookupName = <<"C", "h", "a", "t", "P", "l", "u", "g", "s">>
    /\ Len(lastHandled.m.Attachments) = 2
    /\ SentFor(lastHandled.m.ID) # {}

\* C20 (SpecDownload).  Bounded transfer: whatever length the HEAD response
\* declares, DownloadFile writes at most 8*1024*1024 bytes to the sink.
C20_BoundedTransfer ==
    dl.phase = "done" => dl.res.written <= 8 * 1024 * 1024

\* The outbound loop is inside one message, in a download or in its POST
Blocked == outPc = "attach" /\ panicAt = "none"

\* C18 (SpecLanes).  Independent lanes: a search request that waits while the
\* outbound loop is inside a message is answered for as long as the loop
\* stays there, without any step of the outbound loop being needed; and in
\* every such state discordMessageCreate can handle an event.
C18_IndependentLanes ==
    /\ (Blocked /\ SearchRequestsChan # <<>>)
          ~> (~Blocked \/ (SearchRequestsChan = <<>> /\ Len(searchResponses) = searchCount))
    /\ []((Blocked /\ lastHandled = NoneHandled) => ENABLED LaneNativeEvent)

\* The search request was answered and somebody's event forwarded while the
\* outbound loop was inside its message
C18_Witness ==
    /\ Blocked
    /\ cur.msg.ID = 1
    /\ searchCount = 1
    /\ Len(searchResponses) = 1
    /\ lastHandled.m.ID # 0
    /\ Len(hubSent) = 1
    /\ posted = <<>>

====
